---- MODULE Spec2Model ----
(***************************************************************************)
(* Model of app.py, the Streamlit supplement-information page.             *)
(*                                                                         *)
(* One session of the page is modelled.  The script main() is rerun by     *)
(* Streamlit on every interaction; a rerun without a click is one step     *)
(* (Rerun), a rerun caused by a click of "Get Supplement Information" is   *)
(* the steps Click, Query (once per loop iteration, the model's response   *)
(* being the input of the step) and Render.                                *)
(*                                                                         *)
(* Text is a sequence of one-character strings.  Weights and heights are   *)
(* held in tenths of a unit (kg, cm), the precision round(x, 1) keeps.     *)
(***************************************************************************)
EXTENDS Integers, Sequences, FiniteSets, TLC

VARIABLES
    session_state,    \* st.session_state: a function from the keys set to values
    pc,               \* position of the script: "idle", "query" or "render"
    inputs,           \* the widget values read by the current run
    user_info,        \* the profile built at line 160 of the current click
    i,                \* number of loop iterations of line 165 completed
    all_supplements,  \* the list accumulated at line 167
    sent,             \* the user_info argument of every call made by the current click
    errors,           \* st.error calls made by get_supplement_information in the current click
    collected,        \* number of names the queries of the current click returned
    earlier_click,    \* TRUE once a click of this session has been rendered
    output,           \* what the current click rendered: "none", "chart" or "error"
    fig,              \* the figure handed to st.plotly_chart
    uncaught          \* TRUE when an exception escaped main() in the last run

vars == <<session_state, pc, inputs, user_info, i, all_supplements, sent,
          errors, collected, earlier_click, output, fig, uncaught>>

----------------------------------------------------------------------------
(* Bounds of the model *)

\* most comma-separated items in one response text of the model
MaxItems == 2

\* the items a response text is made of: a name, a name after white space,
\* and white space alone
RawItems == {<<"Z">>, <<" ", "D">>, <<" ">>}

WhiteSpace == {" "}

----------------------------------------------------------------------------
(* Program constants *)

num_queries == 5

NoFig == [y |-> <<>>, x |-> <<>>, autorange |-> "none"]

NoInfo == [weight |-> 0, height |-> 0]

NoInputs == [selected_tab |-> "none", weight_lbs |-> 0, height_ft |-> 0,
             height_in |-> 0, weight_kg |-> 0, height_cm |-> 0]

----------------------------------------------------------------------------
(* Sequences *)

RECURSIVE SeqsUpTo(_, _)
SeqsUpTo(S, n) ==
    IF n = 0 THEN {<<>>}
    ELSE LET shorter == SeqsUpTo(S, n - 1)
         IN  shorter \cup {Append(s, c) : s \in {t \in shorter : Len(t) = n - 1}, c \in S}

\* ",".join(items)
RECURSIVE Join(_)
Join(items) ==
    IF items = <<>> THEN <<>>
    ELSE IF Len(items) = 1 THEN items[1]
    ELSE items[1] \o <<",">> \o Join(Tail(items))

Texts == {Join(items) : items \in SeqsUpTo(RawItems, MaxItems)}

----------------------------------------------------------------------------
(* parse_supplement_list, lines 11-22 *)

\* str.strip(): drop leading and trailing white space
RECURSIVE LStrip(_)
LStrip(s) ==
    IF s # <<>> /\ Head(s) \in WhiteSpace THEN LStrip(Tail(s)) ELSE s

RECURSIVE RStrip(_)
RStrip(s) ==
    IF s # <<>> /\ s[Len(s)] \in WhiteSpace
    THEN RStrip(SubSeq(s, 1, Len(s) - 1))
    ELSE s

Strip(s) == RStrip(LStrip(s))

\* str.split(","): the pieces between the separators, empty pieces included
RECURSIVE SplitFrom(_, _, _)
SplitFrom(s, k, piece) ==
    IF k > Len(s) THEN <<piece>>
    ELSE IF s[k] = "," THEN <<piece>> \o SplitFrom(s, k + 1, <<>>)
    ELSE SplitFrom(s, k + 1, Append(piece, s[k]))

Split(s) == SplitFrom(s, 1, <<>>)

\* [item.strip() for item in text_content.split(",") if item.strip()]
RECURSIVE StripNonEmpty(_)
StripNonEmpty(pieces) ==
    IF pieces = <<>> THEN <<>>
    ELSE LET item == Strip(Head(pieces))
         IN  (IF item # <<>> THEN <<item>> ELSE <<>>) \o StripNonEmpty(Tail(pieces))

SplitItems(text_content) == StripNonEmpty(Split(text_content))

\* response_content is [kind, items, text]: a list of text blocks, a str, or
\* anything else; the result is [raised, value]
parse_supplement_list(response_content) ==
    IF response_content.kind = "list" /\ Len(response_content.items) > 0
    THEN [raised |-> FALSE, value |-> SplitItems(response_content.items[1])]
    ELSE IF response_content.kind = "str"
    THEN [raised |-> FALSE, value |-> SplitItems(response_content.text)]
    ELSE [raised |-> TRUE, value |-> <<>>]

----------------------------------------------------------------------------
(* The model API, line 37: the call raises, or returns a message whose     *)
(* content is a list of text blocks (possibly empty)                       *)

Contents ==
    {[kind |-> "list", items |-> <<>>, text |-> <<>>]}
    \cup {[kind |-> "list", items |-> <<t>>, text |-> <<>>] : t \in Texts}

Responses ==
    {[raised |-> TRUE, content |-> [kind |-> "none", items |-> <<>>, text |-> <<>>]]}
    \cup {[raised |-> FALSE, content |-> c] : c \in Contents}

----------------------------------------------------------------------------
(* get_supplement_information, lines 25-51.  The result is [value, error,  *)
(* raised]: the list returned, whether st.error was called, and whether an *)
(* exception left the function.  The try of line 36 covers the API call,   *)
(* the read of debug_mode and the parsing.                                 *)

Failed == [value |-> <<>>, error |-> TRUE, raised |-> FALSE]

Escaped == [value |-> <<>>, error |-> FALSE, raised |-> TRUE]

\* the function with the try closed after the API call: an exception of
\* line 44 or line 46 leaves it
get_supplement_information_narrow_try(info, response, state) ==
    IF response.raised THEN Failed
    ELSE IF "debug_mode" \notin DOMAIN state THEN Escaped
    ELSE LET parsed == parse_supplement_list(response.content)
         IN  IF parsed.raised THEN Escaped
             ELSE [value |-> parsed.value, error |-> FALSE, raised |-> FALSE]

get_supplement_information(info, response, state) ==
    IF response.raised THEN Failed
    ELSE IF "debug_mode" \notin DOMAIN state THEN Failed
    ELSE LET parsed == parse_supplement_list(response.content)
         IN  IF parsed.raised THEN Failed
             ELSE [value |-> parsed.value, error |-> FALSE, raised |-> FALSE]

----------------------------------------------------------------------------
(* Counter(all_supplements), line 173: a dict, so its keys are in the      *)
(* order of their first insertion.  Modelled as the sequence of            *)
(* <<name, count>> pairs in that order.                                    *)

Occurrences(name, list) == Cardinality({k \in 1..Len(list) : list[k] = name})

RECURSIVE FirstMentions(_, _)
FirstMentions(list, seen) ==
    IF list = <<>> THEN <<>>
    ELSE IF Head(list) \in seen THEN FirstMentions(Tail(list), seen)
    ELSE <<Head(list)>> \o FirstMentions(Tail(list), seen \cup {Head(list)})

Counter(list) ==
    LET keys == FirstMentions(list, {})
    IN  [k \in 1..Len(keys) |-> <<keys[k], Occurrences(keys[k], list)>>]

----------------------------------------------------------------------------
(* create_supplement_chart, lines 54-98 *)

\* round(n / d): Python rounds to the nearest integer, a tie to the even one
RoundHalfEven(n, d) ==
    LET q == n \div d
        r == n % d
    IN  IF 2 * r < d THEN q
        ELSE IF 2 * r > d THEN q + 1
        ELSE IF q % 2 = 0 THEN q ELSE q + 1

\* round(count / total_queries * 100), line 57
Percentage(count, total_queries) == RoundHalfEven(count * 100, total_queries)

\* sorted(..., key=lambda x: x[1], reverse=True), lines 62-64: a stable sort,
\* so pairs of equal key keep their order
RECURSIVE InsertDescending(_, _)
InsertDescending(pair, sorted) ==
    IF sorted = <<>> THEN <<pair>>
    ELSE IF Head(sorted)[2] >= pair[2]
    THEN <<Head(sorted)>> \o InsertDescending(pair, Tail(sorted))
    ELSE <<pair>> \o sorted

RECURSIVE SortFrom(_, _, _)
SortFrom(pairs, k, acc) ==
    IF k > Len(pairs) THEN acc
    ELSE SortFrom(pairs, k + 1, InsertDescending(pairs[k], acc))

RECURSIVE InsertAscending(_, _)
InsertAscending(pair, sorted) ==
    IF sorted = <<>> THEN <<pair>>
    ELSE IF Head(sorted)[2] <= pair[2]
    THEN <<Head(sorted)>> \o InsertAscending(pair, Tail(sorted))
    ELSE <<pair>> \o sorted

RECURSIVE SortAscendingFrom(_, _, _)
SortAscendingFrom(pairs, k, acc) ==
    IF k > Len(pairs) THEN acc
    ELSE SortAscendingFrom(pairs, k + 1, InsertAscending(pairs[k], acc))

Reverse(s) == [k \in 1..Len(s) |-> s[Len(s) + 1 - k]]

\* the sort written as an ascending sort that is then reversed
sorted_ascending_reversed(pairs) == Reverse(SortAscendingFrom(pairs, 1, <<>>))

sorted_reverse(pairs) == SortFrom(pairs, 1, <<>>)

\* the percentages with the rounding applied before the scaling:
\* round(count / total_queries) * 100
chart_pairs_rounded_early(supplement_counts, total_queries) ==
    [k \in 1..Len(supplement_counts) |->
        <<supplement_counts[k][1],
          RoundHalfEven(supplement_counts[k][2], total_queries) * 100>>]

\* zip(supplements, percentages), lines 55-59 and 63
chart_pairs(supplement_counts, total_queries) ==
    [k \in 1..Len(supplement_counts) |->
        <<supplement_counts[k][1], Percentage(supplement_counts[k][2], total_queries)>>]

\* yaxis=dict(autorange="reversed"), lines 93-95
yaxis_autorange == "reversed"

\* [raised, fig]: zip(*sorted_data) at line 65 unpacks into two names and
\* raises ValueError when sorted_data is empty
create_supplement_chart(supplement_counts, total_queries) ==
    LET sorted_data == sorted_reverse(chart_pairs(supplement_counts, total_queries))
    IN  IF sorted_data = <<>>
        THEN [raised |-> TRUE, fig |-> NoFig]
        ELSE [raised |-> FALSE,
              fig |-> [y |-> [k \in 1..Len(sorted_data) |-> sorted_data[k][1]],
                       x |-> [k \in 1..Len(sorted_data) |-> sorted_data[k][2]],
                       autorange |-> yaxis_autorange]]

\* A horizontal bar chart draws its categories from the bottom up; the
\* reversed axis draws them from the top down.  The bars from top to bottom:
BarsTopDown(figure) ==
    LET n == Len(figure.y)
        bars == [k \in 1..n |-> <<figure.y[k], figure.x[k]>>]
    IN  IF figure.autorange = "reversed" THEN bars ELSE Reverse(bars)

----------------------------------------------------------------------------
(* main, lines 112-157: the widgets and the unit conversion *)

\* values of the widgets the model lets the user enter (within the widgets'
\* min_value and max_value); the first of each is the widget's default
WeightLbsValues == {154}
HeightFtValues == {5}
HeightInValues == {7}
WeightKgValues == {70}
HeightCmValues == {170}
Tabs == {"Imperial", "Metric"}

Inputs ==
    [selected_tab : Tabs, weight_lbs : WeightLbsValues, height_ft : HeightFtValues,
     height_in : HeightInValues, weight_kg : WeightKgValues, height_cm : HeightCmValues]

\* round(weight_lbs * 0.45359237, 1) in tenths of a kg, line 152.  The
\* product weight_lbs * 45359237 is split so that it stays within 32 bits:
\* weight_lbs * 45359237 = (weight_lbs * 4535) * 10^4 + weight_lbs * 9237.
\* No tie occurs: 45359237 is coprime to 10.
lbs_to_kg(weight_lbs) ==
    LET high == weight_lbs * 4535
        low  == weight_lbs * 9237 + 5000000
    IN  (high + (low \div 10000)) \div 1000

\* round((height_ft * 30.48) + (height_in * 2.54), 1) in tenths of a cm,
\* line 153.  No tie occurs: height_ft * 3048 + height_in * 254 is even.
ft_in_to_cm(height_ft, height_in) ==
    (height_ft * 3048 + height_in * 254 + 5) \div 10

\* tab1.selected, line 148: tab1 is the first tab of st.tabs, "Imperial"
tab1_selected(in) == in.selected_tab = "Imperial"

\* lines 148-153, in tenths
weight_of(in) ==
    IF tab1_selected(in) THEN in.weight_kg * 10 ELSE lbs_to_kg(in.weight_lbs)

height_of(in) ==
    IF tab1_selected(in) THEN in.height_cm * 10
    ELSE ft_in_to_cm(in.height_ft, in.height_in)

\* the fields of the f-string of line 160 that the model varies
make_user_info(in) == [weight |-> weight_of(in), height |-> height_of(in)]

----------------------------------------------------------------------------
(* main, lines 159-224 *)

\* the list kept from one run to the next instead of made anew
kept_all_supplements(previous) == previous

\* all_supplements = [], line 163
new_all_supplements(previous) == <<>>

\* the loop left at the first query that returns nothing
loop_until_empty(k, supplements) == k < num_queries /\ supplements # <<>>

\* for _ in range(num_queries), line 165: TRUE when the loop goes on after
\* k iterations, the last of which returned supplements
loop_continues(k, supplements) == k < num_queries

\* the chart drawn whatever was collected
chart_always(list) == TRUE

\* if all_supplements, line 171
has_supplements(list) == list # <<>>

\* lines 218-224: debug_mode is initialised when missing, then set to the
\* value of the checkbox
sidebar_state(state, checkbox) ==
    [k \in DOMAIN state \cup {"debug_mode"} |->
        IF k = "debug_mode" THEN checkbox ELSE state[k]]

\* the value of the checkbox of line 222: its default is the stored
\* debug_mode, FALSE in the first run; later the user may have toggled it
checkbox_value(state, toggled) ==
    IF "debug_mode" \in DOMAIN state
    THEN (IF toggled THEN ~state["debug_mode"] ELSE state["debug_mode"])
    ELSE FALSE

Init ==
    /\ session_state = [k \in {} |-> FALSE]
    /\ pc = "idle"
    /\ inputs = NoInputs
    /\ user_info = NoInfo
    /\ i = 0
    /\ all_supplements = <<>>
    /\ sent = <<>>
    /\ errors = 0
    /\ collected = 0
    /\ earlier_click = FALSE
    /\ output = "none"
    /\ fig = NoFig
    /\ uncaught = FALSE

\* A run of main() in which the button was not clicked: the widgets are read,
\* the block of line 159 is skipped, the sidebar is drawn.  Nothing of an
\* earlier run is on the page any more.
Rerun ==
    /\ pc = "idle"
    /\ \E in \in Inputs, toggled \in BOOLEAN :
        /\ inputs' = in
        /\ session_state' = sidebar_state(session_state,
                                          checkbox_value(session_state, toggled))
    /\ user_info' = NoInfo
    /\ i' = 0
    /\ all_supplements' = <<>>
    /\ sent' = <<>>
    /\ errors' = 0
    /\ collected' = 0
    /\ output' = "none"
    /\ fig' = NoFig
    /\ uncaught' = FALSE
    /\ UNCHANGED <<pc, earlier_click>>

\* A run of main() started by a click of "Get Supplement Information", up to
\* line 164.  The button exists once a first run has drawn the page.
Click ==
    /\ pc = "idle"
    /\ DOMAIN session_state # {}
    /\ \E in \in Inputs :
        /\ inputs' = in
        /\ user_info' = make_user_info(in)
    /\ all_supplements' = new_all_supplements(all_supplements)
    /\ i' = 0
    /\ sent' = <<>>
    /\ errors' = 0
    /\ collected' = 0
    /\ output' = "none"
    /\ fig' = NoFig
    /\ uncaught' = FALSE
    /\ pc' = "query"
    /\ UNCHANGED <<session_state, earlier_click>>

\* The distinct results get_supplement_information can return for a call
QueryResults(info, state) ==
    {get_supplement_information(info, response, state) : response \in Responses}

\* One iteration of the loop of lines 165-169, for each response the API can
\* give.  The read of debug_mode at line 168 is outside any try.
Query ==
    /\ pc = "query"
    /\ \E supplements \in QueryResults(user_info, session_state) :
        /\ sent' = Append(sent, user_info)
        /\ errors' = errors + (IF supplements.error THEN 1 ELSE 0)
        /\ IF supplements.raised \/ "debug_mode" \notin DOMAIN session_state
           THEN /\ uncaught' = TRUE
                /\ pc' = "idle"
                /\ UNCHANGED <<i, all_supplements, collected>>
           ELSE /\ all_supplements' = all_supplements \o supplements.value
                /\ collected' = collected + Len(supplements.value)
                /\ i' = i + 1
                /\ pc' = IF loop_continues(i + 1, supplements.value)
                         THEN "query" ELSE "render"
                /\ UNCHANGED uncaught
    /\ UNCHANGED <<session_state, inputs, user_info, output, fig, earlier_click>>

\* Lines 171-224 of a run started by a click: the chart or the error, then
\* the sidebar, whose checkbox the click did not touch
Render ==
    /\ pc = "render"
    /\ IF has_supplements(all_supplements)
       THEN LET chart == create_supplement_chart(Counter(all_supplements), num_queries)
            IN  IF chart.raised
                THEN /\ uncaught' = TRUE
                     /\ UNCHANGED <<output, fig, session_state, earlier_click>>
                ELSE /\ output' = "chart"
                     /\ fig' = chart.fig
                     /\ session_state' = sidebar_state(session_state,
                                            checkbox_value(session_state, FALSE))
                     /\ earlier_click' = TRUE
                     /\ UNCHANGED uncaught
       ELSE /\ output' = "error"
            /\ session_state' = sidebar_state(session_state,
                                              checkbox_value(session_state, FALSE))
            /\ earlier_click' = TRUE
            /\ UNCHANGED <<fig, uncaught>>
    /\ pc' = "idle"
    /\ UNCHANGED <<inputs, user_info, i, all_supplements, sent, errors, collected>>

Next == Rerun \/ Click \/ Query \/ Render

Spec == Init /\ [][Next]_vars

----------------------------------------------------------------------------
(* Properties *)

Abs(n) == IF n < 0 THEN 0 - n ELSE n

Names(list) == {list[k] : k \in 1..Len(list)}

FirstMention(name, list) ==
    CHOOSE k \in 1..Len(list) :
        list[k] = name /\ \A j \in 1..(k - 1) : list[j] # name

\* a click has been carried through to the end of main()
ClickRendered == pc = "idle" /\ output # "none"

\* C1: the figure charted for a name is the number of its occurrences in the
\* results of the click's queries, divided by the number of queries issued
\* (failed ones included), times 100, rounded to the nearest integer; the
\* chart has exactly one bar for each distinct name.
C1_MentionFrequency ==
    output = "chart" =>
        /\ Len(fig.x) = Len(fig.y)
        /\ Names(fig.y) = Names(all_supplements)
        /\ Len(fig.y) = Cardinality(Names(all_supplements))
        /\ \A k \in 1..Len(fig.y) :
            LET count == Cardinality({j \in 1..Len(all_supplements) :
                                         all_supplements[j] = fig.y[k]})
            IN  2 * Abs(fig.x[k] * Len(sent) - count * 100) <= Len(sent)

\* a chart of two names with different counts, drawn after a click one of
\* whose queries failed
C1_Witness ==
    /\ output = "chart"
    /\ errors > 0
    /\ Len(fig.y) = 2
    /\ fig.x[1] = 60
    /\ fig.x[2] = 20

\* C2: a click issues exactly 5 queries one after another, each carrying the
\* profile of the click; a failed or empty query neither ends the loop nor is
\* repeated, and nothing is rendered before the fifth has returned.
C2_FiveQueries ==
    /\ Len(sent) = i
    /\ \A k \in 1..Len(sent) : sent[k] = user_info
    /\ pc = "query" => i < 5 /\ output = "none"
    /\ pc = "render" => i = 5 /\ output = "none"
    /\ output # "none" => i = 5
    /\ errors <= i

\* a click rendered after five queries of which the first ones failed
C2_Witness ==
    /\ ClickRendered
    /\ Len(sent) = 5
    /\ errors = 3
    /\ all_supplements # <<>>

\* C3: session state never holds a key other than debug_mode, and what a
\* click accumulates and charts is what its own queries returned: the list
\* is empty when the click starts, also after an earlier click.
C3_NothingKept ==
    /\ DOMAIN session_state \subseteq {"debug_mode"}
    /\ Len(all_supplements) = collected
    /\ pc = "query" /\ i = 0 => all_supplements = <<>>
    /\ output = "chart" => Names(fig.y) = Names(all_supplements)

\* a second click of the session, rendered with no name, after a rerun has
\* switched debug mode on
C3_Witness ==
    /\ earlier_click
    /\ pc = "render"
    /\ all_supplements = <<>>
    /\ session_state = [k \in {"debug_mode"} |-> TRUE]

\* C4: the profile carries the imperial inputs converted to kg and cm when
\* the Imperial tab is selected, and the metric inputs when the Metric tab is.
C4_MetricProfile ==
    pc # "idle" =>
        /\ inputs.selected_tab = "Imperial" =>
            /\ user_info.weight = lbs_to_kg(inputs.weight_lbs)
            /\ user_info.height = ft_in_to_cm(inputs.height_ft, inputs.height_in)
        /\ inputs.selected_tab = "Metric" =>
            /\ user_info.weight = inputs.weight_kg * 10
            /\ user_info.height = inputs.height_cm * 10

\* C5: no exception leaves get_supplement_information: for every response
\* the API can give to a call about to be made, a raising call and an
\* unparsable content end in an error message and the empty list; a query
\* that fails shows one error message, adds no name and is counted as a query.
C5_FailureIsEmpty ==
    /\ [](~uncaught)
    /\ [](pc = "query" =>
            \A response \in Responses :
                LET result == get_supplement_information(user_info, response, session_state)
                IN  /\ ~result.raised
                    /\ (response.raised \/ response.content.items = <<>>)
                           => result.error /\ result.value = <<>>)
    /\ [][pc = "query" =>
            /\ i' = i + 1
            /\ errors' \in {errors, errors + 1}
            /\ errors' = errors + 1 => all_supplements' = all_supplements]_vars

\* five queries, all failed
C5_Witness ==
    /\ pc = "render"
    /\ errors = 5
    /\ i = 5
    /\ all_supplements = <<>>

\* C6: a rendered click shows the chart when a name was collected and the
\* error when none was, never both and never neither; no exception of
\* create_supplement_chart ends the run.
C6_ChartOrError ==
    /\ ~uncaught
    /\ pc = "idle" /\ i = 5 =>
        /\ output \in {"chart", "error"}
        /\ output = "chart" <=> all_supplements # <<>>
        /\ output = "chart" <=> fig # NoFig
        /\ output = "chart" => fig.y # <<>>

\* the error rendered after five queries that all succeeded and named nothing
C6_Witness ==
    /\ ClickRendered
    /\ output = "error"
    /\ errors = 0
    /\ i = 5

\* C7: from top to bottom the bars are in descending order of percentage,
\* bars of equal percentage are in the order of their first mention, and the
\* bars are a permutation of the counted names, each with its percentage.
C7_SortedBars ==
    output = "chart" =>
        LET bars == BarsTopDown(fig)
            counted == chart_pairs(Counter(all_supplements), num_queries)
        IN  /\ \A j, k \in 1..Len(bars) : j < k => bars[j][2] >= bars[k][2]
            /\ \A j, k \in 1..Len(bars) :
                   j < k /\ bars[j][2] = bars[k][2] =>
                       FirstMention(bars[j][1], all_supplements)
                           < FirstMention(bars[k][1], all_supplements)
            /\ Len(bars) = Len(counted)
            /\ \A k \in 1..Len(counted) :
                   Cardinality({j \in 1..Len(bars) : bars[j] = counted[k]}) = 1

\* two bars of equal percentage, and the name mentioned second on top of
\* a chart where it was mentioned more often
C7_Witness ==
    /\ output = "chart"
    /\ Len(fig.y) = 2
    /\ \/ fig.x[1] = fig.x[2]
       \/ /\ fig.x[1] > fig.x[2]
          /\ FirstMention(fig.y[1], all_supplements)
                 > FirstMention(fig.y[2], all_supplements)

\* C8: every percentage charted lies between 0 and 100.
C8_WithinAxis ==
    output = "chart" => \A k \in 1..Len(fig.x) : fig.x[k] >= 0 /\ fig.x[k] <= 100

====
